---- MODULE Spec2Model ----
(***************************************************************************)
(* Model of the Checkbox primitive of tview (checkbox.go).                 *)
(*                                                                         *)
(* The widget is the record c, with the fields of the Checkbox struct and  *)
(* the fields of the embedded Box it reads (x, y, width, height, border,   *)
(* backgroundColor, and hasFocus for c.focus.HasFocus()).  Every method of *)
(* checkbox.go is one action.  Three history variables record what an      *)
(* operation did: op (the operation and its arguments), calls (the         *)
(* callback invocations it made, in order) and writes (the calls it made   *)
(* on the screen, in order).  run counts consecutive toggle key events.    *)
(***************************************************************************)
EXTENDS Integers, Sequences, FiniteSets

VARIABLES c, op, calls, writes, run

vars == <<c, op, calls, writes, run>>

(***************************************************************************)
(* Bounds of the model.                                                    *)
(***************************************************************************)
MaxLabelLen == 2
MaxWidth == 4
MaxHeight == 3
MaxX == 1
MaxRun == 4

(***************************************************************************)
(* Input domains.                                                          *)
(***************************************************************************)
NoHandler == "nil"

\* Handlers an application installs with SetChangedFunc: one that only
\* observes its argument, and one that calls back into the widget with
\* c.SetChecked(!checked).
ChangedHandlers == {"observeChanged", "vetoChanged"}

\* Handlers an application installs with SetDoneFunc / SetFinishedFunc.
DoneHandlers == {"doneA", "doneB"}

\* Colors passed to the color setters.
Colors == {"ColorBlue", "ColorWhite"}

LabelText == <<"A", "c", "c", "e", "p", "t">>

\* Labels passed to SetLabel: the prefixes of LabelText up to MaxLabelLen.
Labels == {SubSeq(LabelText, 1, n) : n \in 0..MaxLabelLen}

\* Key events: printable runes (space and others), Enter, the three "done"
\* keys and keys the handler has no case for.
Events ==
  { [key |-> "KeyRune", rune |-> " "],
    [key |-> "KeyRune", rune |-> "a"],
    [key |-> "KeyRune", rune |-> "X"],
    [key |-> "KeyEnter", rune |-> "CR"],
    [key |-> "KeyTab", rune |-> "TAB"],
    [key |-> "KeyBacktab", rune |-> "NUL"],
    [key |-> "KeyEscape", rune |-> "ESC"],
    [key |-> "KeyUp", rune |-> "NUL"],
    [key |-> "KeyF1", rune |-> "NUL"] }

Min(a, b) == IF a < b THEN a ELSE b

(***************************************************************************)
(* Construction.                                                           *)
(***************************************************************************)
\* The embedded Box as NewBox() leaves it.
NewBox ==
  [x |-> 0, y |-> 0, width |-> 15, height |-> 10, border |-> FALSE,
   backgroundColor |-> "ColorBlack", hasFocus |-> FALSE]

NewCheckbox ==
  [checked |-> FALSE,
   label |-> <<>>,
   labelColor |-> "ColorYellow",
   fieldBackgroundColor |-> "ColorBlue",
   fieldTextColor |-> "ColorWhite",
   changed |-> NoHandler,
   done |-> NoHandler,
   x |-> NewBox.x, y |-> NewBox.y,
   width |-> NewBox.width, height |-> NewBox.height,
   border |-> NewBox.border,
   backgroundColor |-> NewBox.backgroundColor,
   hasFocus |-> NewBox.hasFocus]

(***************************************************************************)
(* The setters, as functions of the widget.                                *)
(***************************************************************************)
SetCheckedOf(w, checked) == [w EXCEPT !.checked = checked]

\* SetLabel also clearing the checked state.
SetLabelOf_Unchecks(w, label) == [w EXCEPT !.label = label, !.checked = FALSE]

SetLabelOf(w, label) == [w EXCEPT !.label = label]

SetLabelColorOf(w, color) == [w EXCEPT !.labelColor = color]

SetFieldBackgroundColorOf(w, color) == [w EXCEPT !.fieldBackgroundColor = color]

SetFieldTextColorOf(w, color) == [w EXCEPT !.fieldTextColor = color]

\* SetFormAttributes with the two field colors swapped.
SetFormAttributesOf_Swapped(w, label, labelColor, bgColor, fieldTextColor, fieldBgColor) ==
  [w EXCEPT !.label = label,
            !.labelColor = labelColor,
            !.backgroundColor = bgColor,
            !.fieldTextColor = fieldBgColor,
            !.fieldBackgroundColor = fieldTextColor]

SetFormAttributesOf(w, label, labelColor, bgColor, fieldTextColor, fieldBgColor) ==
  [w EXCEPT !.label = label,
            !.labelColor = labelColor,
            !.backgroundColor = bgColor,
            !.fieldTextColor = fieldTextColor,
            !.fieldBackgroundColor = fieldBgColor]

SetChangedFuncOf(w, handler) == [w EXCEPT !.changed = handler]

SetDoneFuncOf(w, handler) == [w EXCEPT !.done = handler]

\* SetFinishedFunc installing the handler only in an empty slot.
SetFinishedFuncOf_KeepsExisting(w, handler) ==
  IF w.done # NoHandler THEN w ELSE SetDoneFuncOf(w, handler)

SetFinishedFuncOf(w, handler) == SetDoneFuncOf(w, handler)

(***************************************************************************)
(* Callbacks.  A callback runs inline; it gets the widget as it is at the  *)
(* moment of the call and returns the widget as it leaves it.              *)
(***************************************************************************)
ChangedBody(handler, w, checked) ==
  IF handler = "vetoChanged" THEN SetCheckedOf(w, ~checked) ELSE w

DoneBody(handler, w, key) == w

\* c.changed(arg): the invocation is logged with the value of c.checked the
\* callback finds.
CallChanged(w, arg) ==
  [c |-> ChangedBody(w.changed, w, arg),
   calls |-> << [fn |-> "changed", handler |-> w.changed,
                 checked |-> arg, key |-> "none", seen |-> w.checked] >>]

\* c.done(key)
CallDone(w, key) ==
  [c |-> DoneBody(w.done, w, key),
   calls |-> << [fn |-> "done", handler |-> w.done,
                 checked |-> FALSE, key |-> key, seen |-> w.checked] >>]

(***************************************************************************)
(* InputHandler: the function it returns, applied to one key event.        *)
(***************************************************************************)
\* IsCheckKey with the rune tested whatever the key: Enter, whose rune is
\* not a space, no longer checks.
IsCheckKey_RuneOnly(event) ==
  /\ event.key \in {"KeyRune", "KeyEnter"}
  /\ ~(event.rune # " ")

\* IsCheckKey without the break: every rune checks.
IsCheckKey_AnyRune(event) == event.key \in {"KeyRune", "KeyEnter"}

\* case tcell.KeyRune, tcell.KeyEnter, and not the break of a rune that is
\* not a space.
IsCheckKey(event) ==
  /\ event.key \in {"KeyRune", "KeyEnter"}
  /\ ~(event.key = "KeyRune" /\ event.rune # " ")

\* case tcell.KeyTab, tcell.KeyBacktab, tcell.KeyEscape
IsDoneKey(event) == event.key \in {"KeyTab", "KeyBacktab", "KeyEscape"}

\* HandleCheck flipping only when a handler is installed.
HandleCheck_NeedsHandler(w) ==
  IF w.changed # NoHandler
    THEN CallChanged([w EXCEPT !.checked = ~w.checked], ~w.checked)
    ELSE [c |-> w, calls |-> <<>>]

\* HandleCheck storing the new value once more after the callback returns.
HandleCheck_WritesAfter(w) ==
  LET w1 == [w EXCEPT !.checked = ~w.checked]
      r == IF w1.changed # NoHandler
             THEN CallChanged(w1, w1.checked)
             ELSE [c |-> w1, calls |-> <<>>]
  IN  [c |-> [r.c EXCEPT !.checked = w1.checked], calls |-> r.calls]

\* HandleCheck with the callback invoked before the flip.
HandleCheck_CallFirst(w) ==
  LET r == IF w.changed # NoHandler
             THEN CallChanged(w, ~w.checked)
             ELSE [c |-> w, calls |-> <<>>]
  IN  [c |-> [r.c EXCEPT !.checked = ~w.checked], calls |-> r.calls]

\* c.checked = !c.checked; if c.changed != nil { c.changed(c.checked) }
HandleCheck(w) ==
  LET w1 == [w EXCEPT !.checked = ~w.checked]
  IN  IF w1.changed # NoHandler
        THEN CallChanged(w1, w1.checked)
        ELSE [c |-> w1, calls |-> <<>>]

\* HandleDone passing KeyTab whatever key was pressed.
HandleDone_AlwaysTab(w, key) ==
  IF w.done # NoHandler
    THEN CallDone(w, "KeyTab")
    ELSE [c |-> w, calls |-> <<>>]

\* if c.done != nil { c.done(key) }
HandleDone(w, key) ==
  IF w.done # NoHandler
    THEN CallDone(w, key)
    ELSE [c |-> w, calls |-> <<>>]

\* HandleKey ignoring the event of a widget without focus.
HandleKey_FocusedOnly(w, event) ==
  IF ~w.hasFocus THEN [c |-> w, calls |-> <<>>]
  ELSE IF IsCheckKey(event) THEN HandleCheck(w)
  ELSE IF IsDoneKey(event) THEN HandleDone(w, event.key)
  ELSE [c |-> w, calls |-> <<>>]

\* HandleKey falling through from the check case into the done case.
HandleKey_Fallthrough(w, event) ==
  IF IsCheckKey(event)
    THEN LET r == HandleCheck(w)
             d == HandleDone(r.c, event.key)
         IN  [c |-> d.c, calls |-> r.calls \o d.calls]
  ELSE IF IsDoneKey(event) THEN HandleDone(w, event.key)
  ELSE [c |-> w, calls |-> <<>>]

HandleKey(w, event) ==
  IF IsCheckKey(event) THEN HandleCheck(w)
  ELSE IF IsDoneKey(event) THEN HandleDone(w, event.key)
  ELSE [c |-> w, calls |-> <<>>]

(***************************************************************************)
(* Draw.  The screen is seen through the calls Draw makes on it and on the *)
(* collaborators that write to it (Box.Draw, the text printer).            *)
(***************************************************************************)
\* The text printer called with (screen, text, x, y, maxWidth, AlignLeft,
\* color): it prints at most maxWidth cells of text and returns the number
\* of cells it printed.
TextPrinter(text, maxWidth) ==
  IF maxWidth < 0 THEN 0 ELSE Min(Len(text), maxWidth)

\* x after "if c.border { x++ }"
DrawX(w) == IF w.border THEN w.x + 1 ELSE w.x

\* y after "if c.border { y++ }"
DrawY(w) == IF w.border THEN w.y + 1 ELSE w.y

\* rightLimit := x + c.width, and "rightLimit -= 2" if c.border
DrawRightLimit(w) == IF w.border THEN w.x + w.width - 2 ELSE w.x + w.width

\* height := c.height, and "height -= 2" if c.border
DrawHeight(w) == IF w.border THEN w.height - 2 ELSE w.height

\* DrawAborts with "rightLimit < x" for "rightLimit <= x".
DrawAborts_Strict(w) == DrawHeight(w) < 1 \/ DrawRightLimit(w) < DrawX(w)

\* if height < 1 || rightLimit <= x { return }
DrawAborts(w) == DrawHeight(w) < 1 \/ DrawRightLimit(w) <= DrawX(w)

\* the maxWidth argument of the text printer: rightLimit-x
LabelMaxWidth(w) == DrawRightLimit(w) - DrawX(w)

\* x after the label is printed: x += (cells printed)
FieldX(w) == DrawX(w) + TextPrinter(w.label, LabelMaxWidth(w))

\* FieldStyle without the swap of a focused widget.
FieldStyle_NoSwap(w) ==
  [bg |-> w.fieldBackgroundColor, fg |-> w.fieldTextColor]

\* fieldStyle, swapped if c.focus.HasFocus()
FieldStyle(w) ==
  IF w.hasFocus
    THEN [bg |-> w.fieldTextColor, fg |-> w.fieldBackgroundColor]
    ELSE [bg |-> w.fieldBackgroundColor, fg |-> w.fieldTextColor]

\* CheckedRune with the test inverted.
CheckedRune_Inverted(w) == IF w.checked THEN " " ELSE "X"

\* checkedRune := 'X'; if !c.checked { checkedRune = ' ' }
CheckedRune(w) == IF ~w.checked THEN " " ELSE "X"

BoxDrawCall(w) ==
  [call |-> "Box.Draw", x |-> w.x, y |-> w.y, width |-> w.width,
   height |-> w.height, border |-> w.border, color |-> w.backgroundColor]

PrinterCall(w) ==
  [call |-> "Print", text |-> w.label, x |-> DrawX(w), y |-> DrawY(w),
   maxWidth |-> LabelMaxWidth(w), align |-> "AlignLeft",
   color |-> w.labelColor]

SetContentCall(w) ==
  [call |-> "SetContent", x |-> FieldX(w), y |-> DrawY(w),
   rune |-> CheckedRune(w), style |-> FieldStyle(w)]

HideCursorCall == [call |-> "HideCursor"]

\* The calls of one Draw, in order.
DrawCalls(w) ==
  IF DrawAborts(w)
    THEN << BoxDrawCall(w) >>
    ELSE << BoxDrawCall(w), PrinterCall(w), SetContentCall(w) >>
         \o (IF w.hasFocus THEN << HideCursorCall >> ELSE << >>)

\* Draw advancing the field c.x, not the local x, past the label.
DrawOf_AdvancesX(w) ==
  IF DrawAborts(w) THEN w ELSE [w EXCEPT !.x = FieldX(w)]

\* Draw assigns no field of the widget.
DrawOf(w) == w

(***************************************************************************)
(* The content of the screen, as the calls of Draw leave it.  Cells off    *)
(* the screen are not written.                                             *)
(***************************************************************************)
ScreenCells == (0..(MaxX + MaxWidth)) \X (0..(MaxX + MaxHeight))

Blank ==
  [cells |-> [p \in ScreenCells |->
                [rune |-> " ", bg |-> "ColorDefault", fg |-> "ColorDefault"]],
   cursor |-> "shown"]

\* Box.Draw fills its rectangle with the background color and, with a
\* border, draws the border ring.
BoxDrawCells(cells, e) ==
  [p \in ScreenCells |->
     IF /\ e.x <= p[1] /\ p[1] < e.x + e.width
        /\ e.y <= p[2] /\ p[2] < e.y + e.height
       THEN IF e.border /\ (\/ p[1] = e.x \/ p[1] = e.x + e.width - 1
                            \/ p[2] = e.y \/ p[2] = e.y + e.height - 1)
              THEN [rune |-> "border", bg |-> e.color, fg |-> "ColorDefault"]
              ELSE [rune |-> " ", bg |-> e.color, fg |-> "ColorDefault"]
       ELSE cells[p]]

\* The text printer writes the cells it printed, in the text color, over
\* the background they have.
PrinterCells(cells, e) ==
  [p \in ScreenCells |->
     IF /\ p[2] = e.y
        /\ e.x <= p[1] /\ p[1] < e.x + TextPrinter(e.text, e.maxWidth)
       THEN [rune |-> e.text[p[1] - e.x + 1], bg |-> cells[p].bg,
             fg |-> e.color]
       ELSE cells[p]]

\* screen.SetContent(x, y, rune, nil, style)
SetContentCells(cells, e) ==
  [p \in ScreenCells |->
     IF p = <<e.x, e.y>>
       THEN [rune |-> e.rune, bg |-> e.style.bg, fg |-> e.style.fg]
       ELSE cells[p]]

ApplyCall(screen, e) ==
  CASE e.call = "Box.Draw" ->
         [screen EXCEPT !.cells = BoxDrawCells(screen.cells, e)]
    [] e.call = "Print" ->
         [screen EXCEPT !.cells = PrinterCells(screen.cells, e)]
    [] e.call = "SetContent" ->
         [screen EXCEPT !.cells = SetContentCells(screen.cells, e)]
    [] e.call = "HideCursor" ->
         [screen EXCEPT !.cursor = "hidden"]

RECURSIVE ScreenAfter(_, _)
ScreenAfter(screen, ws) ==
  IF ws = <<>> THEN screen
  ELSE ScreenAfter(ApplyCall(screen, Head(ws)), Tail(ws))

(***************************************************************************)
(* The actions.                                                            *)
(***************************************************************************)
\* A run of consecutive toggle key events starts after every other
\* operation.
NewRun(w) == [start |-> w.checked, n |-> 0, fired |-> 0]

\* What the specification calls a toggle key event: space or Enter.
ToggleEvent(event) ==
  event.key = "KeyEnter" \/ (event.key = "KeyRune" /\ event.rune = " ")

ChangedCalls(cs) == Len(SelectSeq(cs, LAMBDA e : e.fn = "changed"))

\* The history of an operation that is not a toggle key event.
Record(name, cs, ws) ==
  /\ op' = name
  /\ calls' = cs
  /\ writes' = ws
  /\ run' = NewRun(c')

\* SetChecked notifying the changed handler when the value changes.
SetChecked_Notifying(checked) ==
  /\ c' = SetCheckedOf(c, checked)
  /\ Record(<<"SetChecked", checked>>,
            IF c.changed # NoHandler /\ c.checked # checked
              THEN CallChanged(SetCheckedOf(c, checked), checked).calls
              ELSE <<>>,
            <<>>)

SetChecked(checked) ==
  /\ c' = SetCheckedOf(c, checked)
  /\ Record(<<"SetChecked", checked>>, <<>>, <<>>)

SetLabel(label) ==
  /\ c' = SetLabelOf(c, label)
  /\ Record(<<"SetLabel", label>>, <<>>, <<>>)

GetLabel ==
  /\ c' = c
  /\ Record(<<"GetLabel", c.label>>, <<>>, <<>>)

SetLabelColor(color) ==
  /\ c' = SetLabelColorOf(c, color)
  /\ Record(<<"SetLabelColor", color>>, <<>>, <<>>)

SetFieldBackgroundColor(color) ==
  /\ c' = SetFieldBackgroundColorOf(c, color)
  /\ Record(<<"SetFieldBackgroundColor", color>>, <<>>, <<>>)

SetFieldTextColor(color) ==
  /\ c' = SetFieldTextColorOf(c, color)
  /\ Record(<<"SetFieldTextColor", color>>, <<>>, <<>>)

SetFormAttributes(label, labelColor, bgColor, fieldTextColor, fieldBgColor) ==
  /\ c' = SetFormAttributesOf(c, label, labelColor, bgColor, fieldTextColor,
                              fieldBgColor)
  /\ Record(<<"SetFormAttributes", label, labelColor, bgColor,
              fieldTextColor, fieldBgColor>>, <<>>, <<>>)

SetChangedFunc(handler) ==
  /\ c' = SetChangedFuncOf(c, handler)
  /\ Record(<<"SetChangedFunc", handler>>, <<>>, <<>>)

SetDoneFunc(handler) ==
  /\ c' = SetDoneFuncOf(c, handler)
  /\ Record(<<"SetDoneFunc", handler>>, <<>>, <<>>)

SetFinishedFunc(handler) ==
  /\ c' = SetFinishedFuncOf(c, handler)
  /\ Record(<<"SetFinishedFunc", handler>>, <<>>, <<>>)

Draw ==
  /\ c' = DrawOf(c)
  /\ Record(<<"Draw">>, <<>>, DrawCalls(c))

InputHandler(event) ==
  LET r == HandleKey(c, event)
  IN  /\ ToggleEvent(event) => run.n < MaxRun
      /\ c' = r.c
      /\ op' = <<"InputHandler", event>>
      /\ calls' = r.calls
      /\ writes' = <<>>
      /\ run' = IF ToggleEvent(event)
                  THEN [run EXCEPT !.n = @ + 1,
                                   !.fired = @ + ChangedCalls(r.calls)]
                  ELSE NewRun(r.c)

\* The focus of the embedded Box, given and taken by the application.
Focus ==
  /\ ~c.hasFocus
  /\ c' = [c EXCEPT !.hasFocus = TRUE]
  /\ Record(<<"Focus">>, <<>>, <<>>)

Blur ==
  /\ c.hasFocus
  /\ c' = [c EXCEPT !.hasFocus = FALSE]
  /\ Record(<<"Blur">>, <<>>, <<>>)

(***************************************************************************)
(* Spec: the widget from construction, under every operation.              *)
(***************************************************************************)
Init ==
  /\ c = NewCheckbox
  /\ op = <<"NewCheckbox">>
  /\ calls = <<>>
  /\ writes = <<>>
  /\ run = NewRun(NewCheckbox)

Next ==
  \/ \E checked \in BOOLEAN : SetChecked(checked)
  \/ \E label \in Labels : SetLabel(label)
  \/ GetLabel
  \/ \E color \in Colors : SetLabelColor(color)
  \/ \E color \in Colors : SetFieldBackgroundColor(color)
  \/ \E color \in Colors : SetFieldTextColor(color)
  \/ \E label \in Labels, labelColor \in Colors, bgColor \in Colors,
        fieldTextColor \in Colors, fieldBgColor \in Colors :
        SetFormAttributes(label, labelColor, bgColor, fieldTextColor,
                          fieldBgColor)
  \/ \E handler \in ChangedHandlers \cup {NoHandler} : SetChangedFunc(handler)
  \/ \E handler \in DoneHandlers \cup {NoHandler} : SetDoneFunc(handler)
  \/ \E handler \in DoneHandlers \cup {NoHandler} : SetFinishedFunc(handler)
  \/ Draw
  \/ \E event \in Events : InputHandler(event)
  \/ Focus
  \/ Blur

Spec == Init /\ [][Next]_vars

(***************************************************************************)
(* SpecDraw: Draw applied to a configured widget.  The widget starts in    *)
(* any configuration the setters of Checkbox and Box can produce within    *)
(* the bounds.                                                             *)
(***************************************************************************)
Configured ==
  { [checked |-> checked, label |-> label,
     labelColor |-> NewCheckbox.labelColor,
     fieldBackgroundColor |-> fieldBgColor,
     fieldTextColor |-> fieldTextColor,
     changed |-> handlers[1], done |-> handlers[2],
     x |-> x, y |-> y, width |-> width, height |-> height,
     border |-> border, backgroundColor |-> NewBox.backgroundColor,
     hasFocus |-> hasFocus] :
     checked \in BOOLEAN, label \in Labels,
     fieldBgColor \in Colors, fieldTextColor \in Colors,
     handlers \in {<<NoHandler, NoHandler>>, <<"observeChanged", "doneA">>},
     x \in 0..MaxX, y \in 0..MaxX,
     width \in 0..MaxWidth, height \in 0..MaxHeight,
     border \in BOOLEAN, hasFocus \in BOOLEAN }

InitDraw ==
  /\ c \in Configured
  /\ op = <<"NewCheckbox">>
  /\ calls = <<>>
  /\ writes = <<>>
  /\ run = NewRun(c)

NextDraw ==
  \/ Draw
  \/ \E checked \in BOOLEAN : SetChecked(checked)
  \/ Focus
  \/ Blur

SpecDraw == InitDraw /\ [][NextDraw]_vars

(***************************************************************************)
(* Properties of the input handler and of SetChecked, under Spec.          *)
(***************************************************************************)
ClaimDoneKeys == {"KeyTab", "KeyBacktab", "KeyEscape"}

SpaceEvent == [key |-> "KeyRune", rune |-> " "]

EnterEvent == [key |-> "KeyEnter", rune |-> "CR"]

\* C1: in a run of n consecutive toggle key events (space or Enter, in any
\* mix) with an observing onChanged handler installed, onChanged has been
\* invoked n times and checked is the value at the start of the run if n is
\* even and its negation if n is odd; Enter and space have the same effect.
C1_ToggleParity ==
  /\ (run.n > 0 /\ c.changed = "observeChanged") =>
       /\ run.fired = run.n
       /\ c.checked = (IF run.n % 2 = 0 THEN run.start ELSE ~run.start)
  /\ HandleKey(c, SpaceEvent) = HandleKey(c, EnterEvent)

C1_Witness ==
  /\ op = <<"InputHandler", EnterEvent>>
  /\ run.n = 3
  /\ run.fired = 3
  /\ c.changed = "observeChanged"
  /\ c.checked # run.start

\* C2: on a space or Enter key event with onChanged installed, onChanged is
\* invoked with the negation of the value checked had before the event, and
\* the checked field it finds already holds that value.
C2_FlipBeforeChanged ==
  [][ (/\ op'[1] = "InputHandler"
       /\ ToggleEvent(op'[2])
       /\ c.changed # NoHandler)
      => /\ Len(calls') = 1
         /\ calls'[1].fn = "changed"
         /\ calls'[1].handler = c.changed
         /\ calls'[1].checked = ~c.checked
         /\ calls'[1].seen = ~c.checked ]_vars

C2_Witness ==
  /\ op = <<"InputHandler", SpaceEvent>>
  /\ Len(calls) = 1
  /\ calls[1].fn = "changed"
  /\ calls[1].checked
  /\ calls[1].seen
  /\ c.checked

\* C3: SetChecked(v) sets checked to v, changes no other field and invokes
\* neither onChanged nor onDone, whatever the state and the handlers.
C3_SetCheckedSilent ==
  [][ op'[1] = "SetChecked"
      => /\ c' = [c EXCEPT !.checked = op'[2]]
         /\ c'.checked = op'[2]
         /\ calls' = <<>> ]_vars

C3_Witness ==
  /\ op = <<"SetChecked", TRUE>>
  /\ c.checked
  /\ c.changed # NoHandler
  /\ c.done # NoHandler
  /\ calls = <<>>

\* C4: a Tab, Backtab or Escape key event with onDone installed leaves
\* checked unchanged, invokes onDone exactly once with the key pressed, and
\* does not invoke onChanged.
C4_DoneKeys ==
  [][ (/\ op'[1] = "InputHandler"
       /\ op'[2].key \in ClaimDoneKeys
       /\ c.done # NoHandler)
      => /\ c'.checked = c.checked
         /\ Len(calls') = 1
         /\ calls'[1].fn = "done"
         /\ calls'[1].handler = c.done
         /\ calls'[1].key = op'[2].key ]_vars

C4_Witness ==
  /\ op[1] = "InputHandler"
  /\ op[2].key = "KeyBacktab"
  /\ c.checked
  /\ c.changed # NoHandler
  /\ Len(calls) = 1
  /\ calls[1].fn = "done"
  /\ calls[1].key = "KeyBacktab"

\* C5: a key event that is neither a space rune, Enter, Tab, Backtab nor
\* Escape leaves every field of the widget unchanged and invokes neither
\* onChanged nor onDone.
C5_OtherKeysIgnored ==
  [][ (/\ op'[1] = "InputHandler"
       /\ ~ToggleEvent(op'[2])
       /\ op'[2].key \notin ClaimDoneKeys)
      => /\ c' = c
         /\ calls' = <<>>
         /\ writes' = <<>> ]_vars

C5_Witness ==
  /\ op = <<"InputHandler", [key |-> "KeyRune", rune |-> "a"]>>
  /\ c.checked
  /\ c.changed # NoHandler
  /\ c.done # NoHandler
  /\ calls = <<>>

(***************************************************************************)
(* Properties of Draw, under SpecDraw.                                     *)
(***************************************************************************)
\* The interior rectangle as the specification states it: the rectangle of
\* the Box, inset by one cell and shrunk by two if bordered.
InteriorX(w) == IF w.border THEN w.x + 1 ELSE w.x

InteriorY(w) == IF w.border THEN w.y + 1 ELSE w.y

InteriorWidth(w) == IF w.border THEN w.width - 2 ELSE w.width

InteriorHeight(w) == IF w.border THEN w.height - 2 ELSE w.height

\* The calls of the last Draw on the screen beyond that of Box.Draw.
OwnWrites == {i \in 1..Len(writes) : writes[i].call # "Box.Draw"}

CallsOf(ws, call) == {i \in 1..Len(ws) : ws[i].call = call}

\* C6: Draw uses the interior rectangle: it prints the label at the
\* interior's origin with maximum width the interior's width, and skips
\* its own drawing exactly when the interior's height is less than 1 or its
\* width is not positive (a bordered 3x3 widget draws into its 1x1
\* interior).
C6_InteriorRect ==
  op[1] = "Draw" =>
    /\ (OwnWrites = {}) <=>
         (InteriorHeight(c) < 1 \/ InteriorWidth(c) <= 0)
    /\ OwnWrites # {} =>
         /\ writes[2].call = "Print"
         /\ writes[2].x = InteriorX(c)
         /\ writes[2].y = InteriorY(c)
         /\ writes[2].maxWidth = InteriorWidth(c)

\* C7: a Draw that does not abort writes the toggle cell inside the
\* interior rectangle: at the interior's row and at a column from the
\* interior's first to its last.
C7_ToggleInsideInterior ==
  (op[1] = "Draw" /\ OwnWrites # {}) =>
    \A i \in CallsOf(writes, "SetContent") :
      /\ InteriorX(c) <= writes[i].x
      /\ writes[i].x < InteriorX(c) + InteriorWidth(c)
      /\ writes[i].y = InteriorY(c)

\* C8: when the interior's height is less than 1 or its width is zero or
\* negative, Draw prints no label, sets no cell and does not hide the
\* cursor.
C8_UndrawableSkipped ==
  (/\ op[1] = "Draw"
   /\ (InteriorHeight(c) < 1 \/ InteriorWidth(c) <= 0))
  => \A i \in 1..Len(writes) :
       writes[i].call \notin {"Print", "SetContent", "HideCursor"}

C8_Witness ==
  /\ op[1] = "Draw"
  /\ ~c.border
  /\ c.width = 0
  /\ c.height = 1
  /\ c.hasFocus
  /\ c.checked
  /\ Len(writes) = 1

\* C9: Draw leaves every field of the widget unchanged and invokes no
\* callback; a second Draw right after it makes the same calls on the
\* screen and leaves the screen as the first one left it.
C9_DrawIdempotent ==
  [][ op'[1] = "Draw"
      => /\ c' = c
         /\ calls' = <<>>
         /\ DrawOf(c') = c'
         /\ DrawCalls(c') = writes'
         /\ ScreenAfter(ScreenAfter(Blank, writes'), DrawCalls(c'))
              = ScreenAfter(Blank, writes') ]_vars

C9_Witness ==
  /\ op[1] = "Draw"
  /\ c.changed # NoHandler
  /\ c.done # NoHandler
  /\ c.hasFocus
  /\ Len(c.label) > 0
  /\ Len(writes) = 4
  /\ calls = <<>>

\* C10: a Draw that does not abort sets exactly one cell, at the column of
\* the interior's origin plus the cells the label took and at the
\* interior's row, with 'X' if checked is true and a blank otherwise;
\* right after SetChecked(v) the cell holds 'X' iff v.
C10_ToggleGlyph ==
  [][ (op'[1] = "Draw" /\ Len(writes') > 1)
      => /\ Cardinality(CallsOf(writes', "SetContent")) = 1
         /\ \A i \in CallsOf(writes', "SetContent") :
              /\ \E j \in CallsOf(writes', "Print") :
                   writes'[i].x =
                     InteriorX(c') + TextPrinter(writes'[j].text,
                                                 writes'[j].maxWidth)
              /\ writes'[i].y = InteriorY(c')
              /\ writes'[i].rune = (IF c'.checked THEN "X" ELSE " ")
              /\ op[1] = "SetChecked" =>
                   writes'[i].rune = (IF op[2] THEN "X" ELSE " ") ]_vars

C10_Witness ==
  /\ op[1] = "Draw"
  /\ c.checked
  /\ c.border
  /\ Len(c.label) = 2
  /\ Len(writes) > 2
  /\ writes[3].call = "SetContent"
  /\ writes[3].rune = "X"
  /\ writes[3].x = c.x + 2

\* C11: in a Draw that does not abort, the toggle cell has background
\* fieldBackgroundColor and foreground fieldTextColor when the widget has
\* no focus and the two swapped when it has, and HideCursor is called iff
\* the widget has focus.
C11_FocusStyle ==
  (op[1] = "Draw" /\ Len(writes) > 1) =>
    /\ \A i \in CallsOf(writes, "SetContent") :
         writes[i].style =
           (IF c.hasFocus
              THEN [bg |-> c.fieldTextColor, fg |-> c.fieldBackgroundColor]
              ELSE [bg |-> c.fieldBackgroundColor, fg |-> c.fieldTextColor])
    /\ CallsOf(writes, "SetContent") # {}
    /\ (CallsOf(writes, "HideCursor") # {}) <=> c.hasFocus

C11_Witness ==
  /\ op[1] = "Draw"
  /\ c.hasFocus
  /\ c.fieldBackgroundColor = "ColorBlue"
  /\ c.fieldTextColor = "ColorWhite"
  /\ Len(writes) = 4
  /\ writes[3].style = [bg |-> "ColorWhite", fg |-> "ColorBlue"]
  /\ writes[4].call = "HideCursor"

(***************************************************************************)
(* Properties of the handler slots, the setters and the input handler,    *)
(* under Spec.                                                             *)
(***************************************************************************)
\* C12: each slot holds the handler installed last: SetChangedFunc writes
\* the changed slot, SetDoneFunc and SetFinishedFunc both write the done
\* slot, no other operation changes a slot, and a key event invokes only
\* the handler its slot holds, so never one installed before it.
C12_LastHandlerWins ==
  [][ /\ op'[1] = "SetChangedFunc" => c'.changed = op'[2]
      /\ op'[1] \in {"SetDoneFunc", "SetFinishedFunc"} => c'.done = op'[2]
      /\ op'[1] # "SetChangedFunc" => c'.changed = c.changed
      /\ op'[1] \notin {"SetDoneFunc", "SetFinishedFunc"} => c'.done = c.done
      /\ \A i \in 1..Len(calls') :
           calls'[i].handler =
             (IF calls'[i].fn = "changed" THEN c.changed ELSE c.done) ]_vars

C12_Witness ==
  /\ op[1] = "InputHandler"
  /\ op[2].key = "KeyEscape"
  /\ c.done = "doneB"
  /\ c.changed = "vetoChanged"
  /\ Len(calls) = 1
  /\ calls[1].handler = "doneB"

\* C13: with no onChanged handler a space or Enter key event still flips
\* checked, with no onDone handler Tab, Backtab and Escape leave the whole
\* widget unchanged, and in both cases no callback is invoked.
C13_NilHandlers ==
  [][ /\ (/\ op'[1] = "InputHandler"
          /\ ToggleEvent(op'[2])
          /\ c.changed = NoHandler)
         => (c' = [c EXCEPT !.checked = ~c.checked] /\ calls' = <<>>)
      /\ (/\ op'[1] = "InputHandler"
          /\ op'[2].key \in ClaimDoneKeys
          /\ c.done = NoHandler)
         => (c' = c /\ calls' = <<>>) ]_vars

C13_Witness ==
  /\ op = <<"InputHandler", EnterEvent>>
  /\ c.changed = NoHandler
  /\ c.done # NoHandler
  /\ c.checked
  /\ calls = <<>>

\* C14: checked changes only in a SetChecked step or in an input-handler
\* step for a space or Enter key.
C14_CheckedFrame ==
  [][ c'.checked # c.checked
      => \/ op'[1] = "SetChecked"
         \/ (op'[1] = "InputHandler" /\ ToggleEvent(op'[2])) ]_vars

C14_Witness ==
  /\ op[1] = "SetLabel"
  /\ Len(op[2]) > 0
  /\ c.checked

\* C15: SetFormAttributes sets label, labelColor, the Box background color,
\* fieldTextColor and fieldBackgroundColor to its arguments in that order,
\* leaves every other field unchanged and invokes no callback.
C15_FormAttributes ==
  [][ op'[1] = "SetFormAttributes"
      => /\ c' = [c EXCEPT !.label = op'[2],
                           !.labelColor = op'[3],
                           !.backgroundColor = op'[4],
                           !.fieldTextColor = op'[5],
                           !.fieldBackgroundColor = op'[6]]
         /\ calls' = <<>> ]_vars

C15_Witness ==
  /\ op[1] = "SetFormAttributes"
  /\ op[3] # op[4]
  /\ op[5] # op[6]
  /\ c.fieldTextColor = "ColorBlue"
  /\ c.fieldBackgroundColor = "ColorWhite"
  /\ c.checked
  /\ c.changed # NoHandler
  /\ c.done # NoHandler

\* C16 as stated: a key event delivered while the widget has no focus
\* changes nothing and invokes no callback.
C16_OnlyWhileFocused ==
  [][ (op'[1] = "InputHandler" /\ ~c.hasFocus)
      => (c' = c /\ calls' = <<>>) ]_vars

\* C16, amended: the input handler does not consult the focus: a key event
\* has the effect it has on the widget with the opposite focus, and leaves
\* the focus as it is.
C16_FocusNotConsulted ==
  [][ op'[1] = "InputHandler"
      => LET other == HandleKey([c EXCEPT !.hasFocus = ~c.hasFocus], op'[2])
         IN  /\ c' = [other.c EXCEPT !.hasFocus = c.hasFocus]
             /\ calls' = other.calls ]_vars

C16_Witness ==
  /\ op = <<"InputHandler", SpaceEvent>>
  /\ ~c.hasFocus
  /\ c.checked
  /\ Len(calls) = 1
  /\ calls[1].handler = "observeChanged"

\* C17: when the onChanged handler calls SetChecked(v) while it runs, the
\* widget is, when the input handler returns, as the callback left it:
\* checked is v and no other field differs from before the event.
C17_ReentrantSetChecked ==
  [][ (/\ op'[1] = "InputHandler"
       /\ ToggleEvent(op'[2])
       /\ c.changed = "vetoChanged")
      => /\ Len(calls') = 1
         /\ c' = [c EXCEPT !.checked = ~calls'[1].checked]
         /\ c'.checked \in BOOLEAN ]_vars

C17_Witness ==
  /\ op = <<"InputHandler", SpaceEvent>>
  /\ c.changed = "vetoChanged"
  /\ Len(calls) = 1
  /\ calls[1].checked
  /\ calls[1].seen
  /\ ~c.checked

\* C18: a key event invokes at most one callback, onChanged for space or
\* Enter and onDone for Tab, Backtab or Escape, within the step of the
\* event: no other operation invokes a callback.
C18_OneCallbackPerEvent ==
  [][ /\ op'[1] = "InputHandler" =>
           /\ Len(calls') <= 1
           /\ \A i \in 1..Len(calls') :
                \/ calls'[i].fn = "changed" /\ ToggleEvent(op'[2])
                \/ calls'[i].fn = "done" /\ op'[2].key \in ClaimDoneKeys
      /\ op'[1] # "InputHandler" => calls' = <<>> ]_vars

C18_Witness ==
  /\ op = <<"InputHandler", EnterEvent>>
  /\ c.changed # NoHandler
  /\ c.done # NoHandler
  /\ Len(calls) = 1
  /\ calls[1].fn = "changed"

====
